---- MODULE Spec2Model ----
(***************************************************************************)
(* A model of the sales-knowledge RAG system (rag_system.py, debug_rag.py):*)
(* the chunker split_text, the ingestion pipeline over the shared Chroma   *)
(* collection, the construction of RAGSystem and the query path.           *)
(*                                                                         *)
(* Text is modelled by TLA+ strings.  The module is ASCII, so the three    *)
(* fullwidth delimiters of the chunker's regular expression are written by *)
(* stand-in characters (see IdeographicFullStop and friends); every other  *)
(* character stands for itself.  Japanese message texts are transliterated.*)
(***************************************************************************)
EXTENDS Integers, Sequences, FiniteSets, TLC

(***************************************************************************)
(* Characters and Python string primitives                                 *)
(***************************************************************************)

\* U+3002 (the ideographic full stop), the terminator split_text appends.
IdeographicFullStop == "@"
\* U+FF01 (the fullwidth exclamation mark).
FullwidthExclamation == "^"
\* U+FF1F (the fullwidth question mark).
FullwidthQuestion == "~"

\* The character class of re.split(r'[...]+', text): the three fullwidth marks
\* and the newline.  The Latin '.', '!' and '?' are not in the class.
Delims == {IdeographicFullStop, FullwidthExclamation, FullwidthQuestion, "\n"}

\* The characters str.strip() removes (those the model's texts can hold).
Whitespace == {" ", "\t", "\n", "\r"}

Min(a, b) == IF a < b THEN a ELSE b
Max(a, b) == IF a > b THEN a ELSE b

\* s[i] for a 1-based index.
CharAt(s, i) == SubSeq(s, i, i)

\* The k-th smallest element of a finite set of integers.
KthSmallest(S, k) == CHOOSE x \in S : Cardinality({y \in S : y < x}) = k - 1

\* Python's s[start:] for any integer start (negative counts from the end).
PySliceFrom(s, start) ==
    LET n == Len(s)
        b == IF start < 0 THEN Max(n + start, 0) ELSE Min(start, n)
    IN  SubSeq(s, b + 1, n)

\* Python's s[:stop] for stop >= 0.
PySliceTo(s, stop) == SubSeq(s, 1, Min(stop, Len(s)))

\* str.strip(): the text without leading and trailing whitespace.
Strip(s) ==
    LET n == Len(s)
        ws(i) == CharAt(s, i) \in Whitespace
    IN  IF \A i \in 1..n : ws(i) THEN ""
        ELSE SubSeq(s, CHOOSE i \in 1..n : ~ws(i) /\ \A j \in 1..(i - 1) : ws(j),
                       CHOOSE i \in 1..n : ~ws(i) /\ \A j \in (i + 1)..n : ws(j))

\* sub in s.
Contains(s, sub) ==
    \E i \in 1..(Len(s) - Len(sub) + 1) : SubSeq(s, i, i + Len(sub) - 1) = sub

\* s.endswith(suffix) and s.startswith(prefix).
EndsWith(s, suffix) ==
    Len(s) >= Len(suffix) /\ SubSeq(s, Len(s) - Len(suffix) + 1, Len(s)) = suffix
StartsWith(s, prefix) ==
    Len(s) >= Len(prefix) /\ SubSeq(s, 1, Len(prefix)) = prefix

\* re.split(r'[delims]+', text): the pieces around the maximal runs of
\* delimiters, the empty pieces at either end included.
ReSplit(text) ==
    LET n == Len(text)
        at == {i \in 1..n : CharAt(text, i) \in Delims}
        runStarts == {i \in at : (i - 1) \notin at}
        runEnds == {i \in at : (i + 1) \notin at}
        m == Cardinality(runStarts)
        from(k) == IF k = 1 THEN 1 ELSE KthSmallest(runEnds, k - 1) + 1
        to(k) == IF k = m + 1 THEN n ELSE KthSmallest(runStarts, k) - 1
    IN  [k \in 1..(m + 1) |-> SubSeq(text, from(k), to(k))]

(***************************************************************************)
(* The chunker: RAGSystem.split_text (debug_rag.split_text is the same)    *)
(***************************************************************************)

\* A variant of OverlapText that carries nothing over; C13 does not hold of
\* it.
OverlapTextNothing(current_chunk, chunk_overlap) == ""

\* The seed of the next buffer: current_chunk[-chunk_overlap:] when the chunk
\* is longer than the overlap, else the whole chunk.
OverlapText(current_chunk, chunk_overlap) ==
    IF Len(current_chunk) > chunk_overlap
    THEN PySliceFrom(current_chunk, 0 - chunk_overlap)
    ELSE current_chunk

\* The loop of split_text from sentence k on.
RECURSIVE SplitLoop(_, _, _, _, _, _)
SplitLoop(sentences, k, chunks, current_chunk, chunk_size, chunk_overlap) ==
    IF k > Len(sentences)
    THEN IF current_chunk # "" THEN Append(chunks, current_chunk) ELSE chunks
    ELSE LET sentence == Strip(sentences[k])
         IN  IF sentence = ""
             THEN SplitLoop(sentences, k + 1, chunks, current_chunk,
                            chunk_size, chunk_overlap)
             ELSE IF Len(current_chunk) + Len(sentence) > chunk_size
                     /\ current_chunk # ""
             THEN SplitLoop(sentences, k + 1, Append(chunks, current_chunk),
                            OverlapText(current_chunk, chunk_overlap) \o sentence,
                            chunk_size, chunk_overlap)
             ELSE SplitLoop(sentences, k + 1, chunks,
                            current_chunk \o sentence \o IdeographicFullStop,
                            chunk_size, chunk_overlap)

split_text(text, chunk_size, chunk_overlap) ==
    SplitLoop(ReSplit(text), 1, <<>>, "", chunk_size, chunk_overlap)

\* The trimmed, non-empty sentence candidates split_text accumulates.
SentenceCandidates(text) ==
    LET pieces == ReSplit(text)
    IN  {Strip(pieces[k]) : k \in DOMAIN pieces} \ {""}

(***************************************************************************)
(* Program constants                                                       *)
(***************************************************************************)

CHUNK_SIZE == 1000
CHUNK_OVERLAP == 200
\* n_results of the search that query() issues.
QUERY_N_RESULTS == 3
\* The length to which generate_fallback_answer cuts a chunk.
FALLBACK_EXCERPT == 300

\* document_path of auto_load_documents and the default of the load calls.
DOCUMENT_PATH == "sample_documents"
file_patterns == <<"*.md", "*.txt", "*.docx.md">>

(***************************************************************************)
(* Bounds of the model                                                     *)
(***************************************************************************)

\* The longest text the chunker is explored on (specification SpecSplit).
MaxTextLen == 5
\* chunk_size ranges over 1..MaxChunkSize, chunk_overlap over 0..MaxOverlap.
MaxChunkSize == 3
MaxOverlap == 2
\* A search draws each stored chunk's distance from 0..MaxDistance.
MaxDistance == 1
\* A direct search asks for 1..MaxResults results.
MaxResults == 4

\* The characters the chunker's input texts are made of.
SplitAlphabet == {"a", "b", " ", ".", IdeographicFullStop}

\* The RAGSystem objects (one per UI session) that share ./chroma_db.
Sessions == {"s1", "s2"}
\* The session of the single-threaded specification Spec.
MainSession == "s1"

(***************************************************************************)
(* The filesystem collaborator                                             *)
(***************************************************************************)

\* n copies of the character c.
RECURSIVE Repeat(_, _)
Repeat(c, n) ==
    IF n = 0 THEN ""
    ELSE LET h == Repeat(c, n \div 2)
         IN  h \o h \o (IF n % 2 = 1 THEN c ELSE "")

\* The files of the model.
FileNames == {"doc1.txt", "n.docx.md", "e.txt", "notes.pdf", ".h.md"}

\* What open(file_path).read() returns for each file.  doc1.txt splits into
\* two chunks under 1000/200, n.docx.md into one; e.txt is blank.
FileContent ==
    [filename \in FileNames |->
        CASE filename = "doc1.txt" ->
                 Repeat("a", 600) \o IdeographicFullStop \o Repeat("b", 600)
          [] filename = "n.docx.md" -> "price list\n"
          [] filename = "e.txt" -> " \n"
          [] OTHER -> "x"]

\* The directories the model starts from: listing is os.listdir's order.
FsChoices ==
    { [exists |-> FALSE, listing |-> <<>>],
      [exists |-> TRUE, listing |-> <<"notes.pdf", ".h.md">>],
      [exists |-> TRUE, listing |-> <<"doc1.txt">>],
      [exists |-> TRUE, listing |-> <<"n.docx.md", "e.txt", "doc1.txt">>] }

\* os.path.join and os.path.basename.
PathJoin(dir, name) == dir \o "/" \o name
Basename(path) ==
    LET slashes == {i \in 1..Len(path) : CharAt(path, i) = "/"}
    IN  IF slashes = {} THEN path
        ELSE SubSeq(path, (CHOOSE i \in slashes : \A j \in slashes : i >= j) + 1,
                    Len(path))

\* fnmatch of a name against a pattern "*<suffix>"; glob's * skips dot-files.
GlobMatch(name, pattern) ==
    /\ EndsWith(name, PySliceFrom(pattern, 1))
    /\ ~StartsWith(name, ".")

RECURSIVE SelectSeq2(_, _)
SelectSeq2(names, pattern) ==
    IF names = <<>> THEN <<>>
    ELSE (IF GlobMatch(Head(names), pattern) THEN <<Head(names)>> ELSE <<>>)
         \o SelectSeq2(Tail(names), pattern)

\* glob.glob(os.path.join(document_path, pattern)), in listing order.
Glob(dir, document_path, pattern) ==
    LET hits == SelectSeq2(dir.listing, pattern)
    IN  [k \in 1..Len(hits) |-> PathJoin(document_path, hits[k])]

\* documents after the loop "for pattern in file_patterns: documents.extend".
RECURSIVE GlobAll(_, _, _)
GlobAll(dir, document_path, k) ==
    IF k > Len(file_patterns) THEN <<>>
    ELSE Glob(dir, document_path, file_patterns[k])
         \o GlobAll(dir, document_path, k + 1)

\* Code points of the characters of the model's paths, in ASCII order.
AsciiOrder == "#-./0123456789_abcdefghijklmnopqrstuvwxyz"
Ord(c) == CHOOSE i \in 1..Len(AsciiOrder) : CharAt(AsciiOrder, i) = c

\* a < b for Python strings: decided at the first index where they differ.
StrLess(a, b) ==
    LET m == Min(Len(a), Len(b))
    IN  IF SubSeq(a, 1, m) = SubSeq(b, 1, m) THEN Len(a) < Len(b)
        ELSE LET i == CHOOSE k \in 1..m :
                          /\ CharAt(a, k) # CharAt(b, k)
                          /\ SubSeq(a, 1, k - 1) = SubSeq(b, 1, k - 1)
             IN  Ord(CharAt(a, i)) < Ord(CharAt(b, i))

\* list.sort() on a list of strings (by insertion; only the result matters).
RECURSIVE InsertSorted(_, _)
InsertSorted(sorted, e) ==
    IF sorted = <<>> THEN <<e>>
    ELSE IF StrLess(e, Head(sorted)) THEN <<e>> \o sorted
    ELSE <<Head(sorted)>> \o InsertSorted(Tail(sorted), e)

RECURSIVE SortStrings(_)
SortStrings(seq) ==
    IF seq = <<>> THEN <<>>
    ELSE InsertSorted(SortStrings(Tail(seq)), Head(seq))

(***************************************************************************)
(* The vector store collaborator (the Chroma collection "sales_knowledge") *)
(***************************************************************************)

\* A variant of ChunkId that numbers chunks from 0; C4 does not hold of it.
ChunkIdZeroBased(filename, i) == filename \o "#chunk-" \o ToString(i)

\* chunk_id = f"{filename}#chunk-{i+1}" for the 0-based index i of enumerate.
ChunkId(filename, i) == filename \o "#chunk-" \o ToString(i + 1)

\* The metadata dictionary process_document stores with a chunk.
Metadata(filename, chunk_id, i, file_path) ==
    [source |-> filename, chunk_id |-> chunk_id, chunk_index |-> i,
     file_path |-> file_path]

\* One stored entry: collection.add(documents, embeddings, metadatas, ids).
\* The embedding is opaque to the program and is left out; a search draws the
\* distances it induces.
Entry(chunk, metadata, chunk_id) ==
    [id |-> chunk_id, document |-> chunk, metadata |-> metadata]

\* A variant of StoreGet that never finds an id; C1 does not hold of it.
StoreGetNothing(coll, chunk_id) == {}

\* collection.get(ids=[chunk_id])['ids'].
StoreGet(coll, chunk_id) == {e.id : e \in {x \in coll : x.id = chunk_id}}

\* A variant of StoreAdd that keeps the new entry only; C5 does not hold of it.
StoreAddReplacing(coll, entry) == {entry}

\* The collection after collection.add of an entry whose id is not stored.
StoreAdd(coll, entry) == coll \cup {entry}

\* A variant of StoreReset that keeps the entries; C20 does not hold of it.
StoreResetKeeps(coll, reset_ok) == coll

\* The collection after delete_collection + create_collection inside
\* "try ... except: pass": empty when they went through (reset_ok).
StoreReset(coll, reset_ok) == IF reset_ok THEN {} ELSE coll

\* collection.count().
StoreCount(coll) == Cardinality(coll)

(***************************************************************************)
(* Status strings (the failure mark stands for the cross-mark emoji)       *)
(***************************************************************************)

FailMark == "[X]"
EmbeddingOkStatus == "[OK] embedding model initialised"
EmbeddingFailStatus == FailMark \o " embedding model initialisation failed"
DbExistingStatus(n) ==
    "[DB] loaded existing knowledge base (" \o ToString(n) \o " documents)"
DbCreatedStatus == "[DB] created new knowledge base"
AvailableStatus(n) == "[OK] " \o ToString(n) \o " documents available"
NoFolderStatus == "[!] sample_documents folder not found"
AutoLoadErrorStatus == FailMark \o " document auto load error"
FolderMissingStatus(path) == FailMark \o " document folder not found: " \o path
NoDocumentsStatus == FailMark \o " no loadable document found"
LoadedStatus(files, chunks) ==
    "[OK] loaded " \o ToString(chunks) \o " documents from " \o ToString(files)
    \o " files"

(***************************************************************************)
(* State                                                                   *)
(***************************************************************************)

VARIABLES
    fs,                \* the document directory (never written by the program)
    collection_exists, \* whether ./chroma_db holds the collection
    collection,        \* the entries of the collection, shared by all sessions
    pc,                \* each session's position
    has_model,         \* whether self.embedding_model is set
    has_db,            \* whether self.chroma_client and self.collection are set
    embedding_status,  \* self.embedding_status
    db_status,         \* self.db_status
    load,              \* the frame of the running (or last) load call
    pd,                \* the frame of the running (or last) process_document
    qry,               \* what the last query call returned and requested
    obs,               \* history: what each call started from and did
    ingested,          \* history: files ingested to the end since the last reset
    st                 \* the chunker run alone (specification SpecSplit)

vars == <<fs, collection_exists, collection, pc, has_model, has_db,
          embedding_status, db_status, load, pd, qry, obs, ingested, st>>

NoLoad ==
    [fn |-> "none", document_path |-> "", documents |-> <<>>, next |-> 0,
     processed_count |-> 0, total_chunks |-> 0, ret |-> "none"]
NoPd ==
    [file_path |-> "", filename |-> "", chunks |-> <<>>, i |-> 0,
     chunks_added |-> 0, ret |-> "none"]
NoQry ==
    [answer |-> "", search_results |-> <<>>, requests |-> <<>>,
     n_results |-> 0, search_ok |-> FALSE, tests_done |-> 0]
NoObs ==
    [in_init |-> FALSE, coll0 |-> {}, did_reset |-> FALSE, pd_coll0 |-> {},
     counted |-> {}, pd_inserted |-> 0, pd_prior |-> FALSE,
     pd_get_failed |-> FALSE, pd_failed |-> "no"]
NoSt ==
    [pc |-> "off", text |-> "", chunk_size |-> 0, chunk_overlap |-> 0,
     chunks |-> <<>>]

InitSessions ==
    /\ pc = [s \in Sessions |-> "idle"]
    /\ has_model = [s \in Sessions |-> FALSE]
    /\ has_db = [s \in Sessions |-> FALSE]
    /\ embedding_status = [s \in Sessions |-> ""]
    /\ db_status = [s \in Sessions |-> ""]
    /\ load = [s \in Sessions |-> NoLoad]
    /\ pd = [s \in Sessions |-> NoPd]
    /\ qry = [s \in Sessions |-> NoQry]
    /\ obs = [s \in Sessions |-> NoObs]

\* Before the first RAGSystem is constructed: no collection on disk yet.
Init ==
    /\ fs \in FsChoices
    /\ collection_exists = FALSE
    /\ collection = {}
    /\ ingested = {}
    /\ InitSessions
    /\ st = NoSt

(***************************************************************************)
(* Construction: RAGSystem.__init__, the two setup methods and             *)
(* auto_load_documents                                                     *)
(***************************************************************************)

\* A variant of AutoLoadSkips that loads whatever the count; C10 does not hold
\* of it.
AutoLoadNeverSkips(current_count) == FALSE

\* auto_load_documents: "if current_count > 0: ... return True".
AutoLoadSkips(current_count) == current_count > 0

\* __init__ ignores what setup_embedding_model and setup_chroma_db return and
\* always goes on to auto_load_documents.  model_ok and db_ok are the outcomes
\* of loading the SentenceTransformer and of opening the PersistentClient; a
\* failed step leaves its attribute unset.  With the collection unset,
\* self.collection.count() raises inside auto_load_documents' try.  The step
\* ends where auto_load_documents returns or where load_documents_silent is
\* about to clear the collection.
Construct(s) ==
    /\ pc[s] = "idle"
    /\ \E model_ok \in BOOLEAN, db_ok \in BOOLEAN :
        LET current_count == StoreCount(collection)
            enter == db_ok /\ ~AutoLoadSkips(current_count) /\ fs.exists
        IN  /\ has_model' = [has_model EXCEPT ![s] = model_ok]
            /\ embedding_status' =
                 [embedding_status EXCEPT
                    ![s] = IF model_ok THEN EmbeddingOkStatus
                           ELSE EmbeddingFailStatus]
            /\ has_db' = [has_db EXCEPT ![s] = db_ok]
            /\ collection_exists' = (collection_exists \/ db_ok)
            /\ db_status' =
                 [db_status EXCEPT
                    ![s] = IF ~db_ok THEN AutoLoadErrorStatus
                           ELSE IF AutoLoadSkips(current_count)
                           THEN AvailableStatus(current_count)
                           ELSE IF ~fs.exists THEN NoFolderStatus
                           ELSE IF collection_exists
                           THEN DbExistingStatus(current_count)
                           ELSE DbCreatedStatus]
            /\ pc' = [pc EXCEPT ![s] = IF enter THEN "load_reset" ELSE "ready"]
            /\ load' =
                 [load EXCEPT
                    ![s] = IF enter
                           THEN [NoLoad EXCEPT !.fn = "load_documents_silent",
                                               !.document_path = DOCUMENT_PATH]
                           ELSE NoLoad]
            /\ pd' = [pd EXCEPT ![s] = NoPd]
            /\ qry' = [qry EXCEPT ![s] = NoQry]
            /\ obs' = [obs EXCEPT ![s] = [NoObs EXCEPT !.in_init = enter,
                                                       !.coll0 = collection]]
    /\ UNCHANGED <<fs, collection, ingested, st>>

\* The process ends; ./chroma_db stays on disk.
Restart(s) ==
    /\ pc[s] = "ready"
    /\ pc' = [pc EXCEPT ![s] = "idle"]
    /\ has_model' = [has_model EXCEPT ![s] = FALSE]
    /\ has_db' = [has_db EXCEPT ![s] = FALSE]
    /\ embedding_status' = [embedding_status EXCEPT ![s] = ""]
    /\ db_status' = [db_status EXCEPT ![s] = ""]
    /\ load' = [load EXCEPT ![s] = NoLoad]
    /\ pd' = [pd EXCEPT ![s] = NoPd]
    /\ qry' = [qry EXCEPT ![s] = NoQry]
    /\ obs' = [obs EXCEPT ![s] = NoObs]
    /\ UNCHANGED <<fs, collection_exists, collection, ingested, st>>

(***************************************************************************)
(* Ingestion: load_documents, load_documents_silent, process_document      *)
(***************************************************************************)

LoadFunctions == {"load_documents", "load_documents_silent"}

\* A caller invokes load_documents or load_documents_silent on a constructed
\* object: the os.path.exists test and its early "return False".
CallLoad(s, fn) ==
    /\ pc[s] = "ready"
    /\ fn \in LoadFunctions
    /\ pc' = [pc EXCEPT ![s] = IF fs.exists THEN "load_reset" ELSE "ready"]
    /\ load' =
         [load EXCEPT
            ![s] = [NoLoad EXCEPT !.fn = fn, !.document_path = DOCUMENT_PATH,
                                  !.ret = IF fs.exists THEN "none" ELSE FALSE]]
    /\ db_status' =
         [db_status EXCEPT
            ![s] = IF ~fs.exists /\ fn = "load_documents_silent"
                   THEN FolderMissingStatus(DOCUMENT_PATH) ELSE @]
    /\ pd' = [pd EXCEPT ![s] = NoPd]
    /\ qry' = [qry EXCEPT ![s] = NoQry]
    /\ obs' = [obs EXCEPT ![s] = [NoObs EXCEPT !.coll0 = collection]]
    /\ UNCHANGED <<fs, collection_exists, collection, has_model, has_db,
                   embedding_status, ingested, st>>

\* A caller invokes process_document on one file of the directory.
CallProcessDocument(s, file_path) ==
    /\ pc[s] = "ready"
    /\ pc' = [pc EXCEPT ![s] = "doc"]
    /\ load' =
         [load EXCEPT
            ![s] = [NoLoad EXCEPT !.fn = "process_document",
                                  !.documents = <<file_path>>, !.next = 1]]
    /\ pd' = [pd EXCEPT ![s] = NoPd]
    /\ qry' = [qry EXCEPT ![s] = NoQry]
    /\ obs' = [obs EXCEPT ![s] = [NoObs EXCEPT !.coll0 = collection]]
    /\ UNCHANGED <<fs, collection_exists, collection, has_model, has_db,
                   embedding_status, db_status, ingested, st>>

\* The value a load call returns after its loop.
LoadReturn(fn, processed_count) ==
    IF fn = "load_documents" THEN processed_count > 0 ELSE TRUE

\* The head of both load calls: delete_collection + create_collection inside
\* "try ... except: pass" (reset_ok: whether they went through; they cannot
\* without a client), then the glob loop, the sort and "if not documents".
LoadResetAndGlob(s) ==
    /\ pc[s] = "load_reset"
    /\ \E reset_ok \in (IF has_db[s] THEN BOOLEAN ELSE {FALSE}) :
        LET documents == SortStrings(GlobAll(fs, load[s].document_path, 1))
            none == documents = <<>>
        IN  /\ collection' = StoreReset(collection, reset_ok)
            /\ ingested' = IF reset_ok THEN {} ELSE ingested
            /\ pc' = [pc EXCEPT ![s] = IF none THEN "ready" ELSE "doc"]
            /\ load' =
                 [load EXCEPT
                    ![s] = IF none THEN [@ EXCEPT !.ret = FALSE]
                           ELSE [@ EXCEPT !.documents = documents, !.next = 1]]
            /\ db_status' =
                 [db_status EXCEPT
                    ![s] = IF none /\ load[s].fn = "load_documents_silent"
                           THEN NoDocumentsStatus ELSE @]
            /\ obs' = [t \in Sessions |->
                         IF t = s
                         THEN [obs[s] EXCEPT !.did_reset = reset_ok,
                                             !.in_init = @ /\ ~none,
                                             !.counted = {}]
                         ELSE IF reset_ok THEN [obs[t] EXCEPT !.counted = {}]
                         ELSE obs[t]]
    /\ UNCHANGED <<fs, collection_exists, has_model, has_db, embedding_status,
                   pd, qry, st>>

\* chunks = self.split_text(content, CHUNK_SIZE, CHUNK_OVERLAP) for the
\* content of each file (the files never change, so it is tabulated).
FileChunks ==
    [filename \in FileNames |->
        split_text(FileContent[filename], CHUNK_SIZE, CHUNK_OVERLAP)]

\* One step inside process_document: the new frame, position and history of
\* session s, and the new collection.
PdStep(s, frame, position, history, coll, done) ==
    /\ pd' = [pd EXCEPT ![s] = frame]
    /\ pc' = [pc EXCEPT ![s] = position]
    /\ obs' = [obs EXCEPT ![s] = history]
    /\ collection' = coll
    /\ ingested' = ingested \cup done
    /\ UNCHANGED <<fs, collection_exists, has_model, has_db, embedding_status,
                   db_status, load, qry, st>>

\* A variant of PdFail in which the exception leaves the load call as well;
\* C9 does not hold of it.
PdFailAborts(s, kind) ==
    PdStep(s, [pd[s] EXCEPT !.ret = 0], "ready",
           [obs[s] EXCEPT !.pd_failed = kind], collection, {})

\* "except Exception as e: st.error(...); return 0".
PdFail(s, kind) ==
    PdStep(s, [pd[s] EXCEPT !.ret = 0], "doc_ret",
           [obs[s] EXCEPT !.pd_failed = kind], collection, {})

\* The end of one pass of the chunk loop with chunks_added = added: the next
\* chunk, or "return chunks_added" after the last one.
PdContinue(s, added, history, coll) ==
    IF pd[s].i + 1 < Len(pd[s].chunks)
    THEN PdStep(s, [pd[s] EXCEPT !.i = @ + 1, !.chunks_added = added], "chunk",
                history, coll, {})
    ELSE PdStep(s, [pd[s] EXCEPT !.chunks_added = added, !.ret = added],
                "doc_ret", history, coll, {pd[s].file_path})

\* process_document up to its chunk loop: open + read (read_ok: whether they
\* succeed), the blank-content test, split_text and "if not chunks".
ProcessDocumentOpen(s) ==
    /\ pc[s] = "doc"
    /\ LET file_path == load[s].documents[load[s].next]
           filename == Basename(file_path)
           content == FileContent[filename]
           chunks == FileChunks[filename]
           frame == [NoPd EXCEPT !.file_path = file_path, !.filename = filename]
           history == [obs[s] EXCEPT !.pd_coll0 = collection, !.pd_inserted = 0,
                                     !.pd_prior = file_path \in ingested,
                                     !.pd_get_failed = FALSE, !.pd_failed = "no"]
       IN  \E read_ok \in BOOLEAN :
             IF ~read_ok
             THEN PdStep(s, [frame EXCEPT !.ret = 0], "doc_ret",
                         [history EXCEPT !.pd_failed = "read"], collection, {})
             ELSE IF Strip(content) = "" \/ chunks = <<>>
             THEN PdStep(s, [frame EXCEPT !.ret = 0], "doc_ret", history,
                         collection, {})
             ELSE PdStep(s, [frame EXCEPT !.chunks = chunks], "chunk", history,
                         collection, {})

\* The chunk loop up to the embedding: the blank-chunk test and the duplicate
\* check collection.get(ids=[chunk_id]) inside "try ... except: pass"
\* (get_ok: whether get returns; it cannot without a collection).
ChunkDuplicateCheck(s) ==
    /\ pc[s] = "chunk"
    /\ LET chunk == pd[s].chunks[pd[s].i + 1]
           chunk_id == ChunkId(pd[s].filename, pd[s].i)
       IN  IF Strip(chunk) = ""
           THEN PdContinue(s, pd[s].chunks_added, obs[s], collection)
           ELSE \E get_ok \in (IF has_db[s] THEN BOOLEAN ELSE {FALSE}) :
                  IF get_ok /\ StoreGet(collection, chunk_id) # {}
                  THEN PdContinue(s, pd[s].chunks_added, obs[s], collection)
                  ELSE PdStep(s, pd[s], "add",
                              [obs[s] EXCEPT !.pd_get_failed = @ \/ ~get_ok],
                              collection, {})

\* What collection.add does with an id the collection already holds: Chroma
\* versions either drop the entry silently or raise.
AddExistingOutcomes == {"ignored", "raises"}

\* The rest of the loop body: embedding_model.encode (enc_ok: whether it
\* returns; it cannot without a model), the metadata, collection.add
\* (add_ok: whether the store accepts a new entry) and chunks_added += 1.
ChunkEmbedAndAdd(s) ==
    /\ pc[s] = "add"
    /\ LET chunk == pd[s].chunks[pd[s].i + 1]
           chunk_id == ChunkId(pd[s].filename, pd[s].i)
           metadata == Metadata(pd[s].filename, chunk_id, pd[s].i, pd[s].file_path)
           present == StoreGet(collection, chunk_id) # {}
       IN  \E enc_ok \in (IF has_model[s] THEN BOOLEAN ELSE {FALSE}) :
             IF ~enc_ok THEN PdFail(s, "embed")
             ELSE IF ~has_db[s] THEN PdFail(s, "add")
             ELSE IF present
             THEN \E outcome \in AddExistingOutcomes :
                    IF outcome = "ignored"
                    THEN PdContinue(s, pd[s].chunks_added + 1,
                                    [obs[s] EXCEPT !.counted = @ \cup {chunk_id}],
                                    collection)
                    ELSE PdFail(s, "add")
             ELSE \E add_ok \in BOOLEAN :
                    IF add_ok
                    THEN PdContinue(s, pd[s].chunks_added + 1,
                                    [obs[s] EXCEPT !.pd_inserted = @ + 1,
                                                   !.counted = @ \cup {chunk_id}],
                                    StoreAdd(collection,
                                             Entry(chunk, metadata, chunk_id)))
                    ELSE PdFail(s, "add")

\* The loop body of a load call after process_document returned chunks_added:
\* load_documents_silent adds it to total_chunks; load_documents counts the
\* file and its chunks only "if chunks_added > 0".
Accumulate(frame, chunks_added) ==
    IF frame.fn = "load_documents" /\ ~(chunks_added > 0)
    THEN frame
    ELSE [frame EXCEPT !.total_chunks = @ + chunks_added,
                       !.processed_count =
                           IF frame.fn = "load_documents" THEN @ + 1 ELSE @]

\* Whether the "for ... in documents" loop has a further document.
HasNextDocument(frame) == frame.next < Len(frame.documents)

\* process_document has returned: the caller takes the value; a load call
\* goes to its next document, or past the loop to its status and return.
LoadNext(s) ==
    /\ pc[s] = "doc_ret"
    /\ LET frame == Accumulate(load[s], pd[s].ret)
           direct == load[s].fn = "process_document"
           more == ~direct /\ HasNextDocument(frame)
       IN  /\ pc' = [pc EXCEPT ![s] = IF more THEN "doc" ELSE "ready"]
           /\ load' =
                [load EXCEPT
                   ![s] = IF direct THEN [@ EXCEPT !.ret = pd[s].ret]
                          ELSE IF more THEN [frame EXCEPT !.next = @ + 1]
                          ELSE [frame EXCEPT
                                  !.ret = LoadReturn(frame.fn,
                                                     frame.processed_count)]]
           /\ db_status' =
                [db_status EXCEPT
                   ![s] = IF ~more /\ load[s].fn = "load_documents_silent"
                          THEN LoadedStatus(Len(frame.documents),
                                            frame.total_chunks)
                          ELSE @]
           /\ pd' = [pd EXCEPT ![s] = NoPd]
           /\ obs' = [obs EXCEPT
                        ![s] = [NoObs EXCEPT !.in_init = obs[s].in_init /\ more,
                                             !.coll0 = obs[s].coll0,
                                             !.did_reset = obs[s].did_reset,
                                             !.counted = obs[s].counted]]
    /\ UNCHANGED <<fs, collection_exists, collection, has_model, has_db,
                   embedding_status, qry, ingested, st>>

(***************************************************************************)
(* Retrieval and answering: search_similar_documents, generate_answer,     *)
(* generate_fallback_answer, query                                         *)
(***************************************************************************)

\* The questions asked of the system.
Questions == {"x"}

\* The sequences of n distinct entries of the collection.
Selections(coll, n) ==
    {sq \in [1..n -> coll] : \A i \in 1..n : \A j \in 1..n : sq[i] = sq[j] => i = j}

\* collection.query(n_results = n): what Chroma may return when dist gives
\* each stored entry's distance to the query: the n nearest entries, nearest
\* first, ties in any order.
StoreQuery(coll, dist, n) ==
    {sq \in Selections(coll, n) :
        /\ \A i \in 1..(n - 1) : dist[sq[i]] <= dist[sq[i + 1]]
        /\ \A e \in coll \ {sq[i] : i \in 1..n} :
               \A i \in 1..n : dist[sq[i]] <= dist[e]}

\* A variant of SearchResults that lists the store's answer last to first;
\* C11 does not hold of it.
SearchResultsReversed(sq, dist) ==
    [i \in DOMAIN sq |->
        LET e == sq[Len(sq) + 1 - i]
        IN  [content |-> e.document, metadata |-> e.metadata,
             distance |-> dist[e], source |-> e.metadata.source]]

\* The list search_similar_documents builds from the store's answer.
SearchResults(sq, dist) ==
    [i \in DOMAIN sq |->
        [content |-> sq[i].document, metadata |-> sq[i].metadata,
         distance |-> dist[sq[i]], source |-> sq[i].metadata.source]]

\* Whether encode and the store's query can return at all in session s.
SearchCanAnswer(s) == has_db[s] /\ has_model[s]

\* What search_similar_documents(query, n_results) may return in the current
\* state.  search_ok: whether encode and the store's query return; without a
\* collection or a model they raise and the except branch returns the empty
\* list.  The test for an empty collection returns the empty list as well.
SearchReturns(s, n_results, search_ok) ==
    IF ~has_db[s] \/ StoreCount(collection) = 0 \/ ~has_model[s] \/ ~search_ok
    THEN {<<>>}
    ELSE UNION {{SearchResults(sq, dist) :
                    sq \in StoreQuery(collection, dist,
                                      Min(n_results, StoreCount(collection)))} :
                dist \in [collection -> 0..MaxDistance]}

\* Everything search_similar_documents(query, n_results) may return.
SearchOutcomes(s, n_results) ==
    UNION {SearchReturns(s, n_results, search_ok) : search_ok \in BOOLEAN}

\* f"{similarity:.3f}" for the whole-number similarities of the model.
Format3f(x) ==
    (IF x < 0 THEN "-" \o ToString(0 - x) ELSE ToString(x)) \o ".000"

\* The two loops of generate_fallback_answer from result k on.
RECURSIVE FallbackBlocks(_, _)
FallbackBlocks(context_docs, k) ==
    IF k > Len(context_docs) THEN ""
    ELSE LET doc == context_docs[k]
         IN  "\n### " \o ToString(k) \o ". " \o doc.source \o " (similarity: "
             \o Format3f(1 - doc.distance) \o ")\n"
             \o PySliceTo(doc.content, FALLBACK_EXCERPT)
             \o (IF Len(doc.content) > FALLBACK_EXCERPT THEN "..." ELSE "")
             \o "\n\n" \o FallbackBlocks(context_docs, k + 1)

RECURSIVE FallbackCitations(_, _)
FallbackCitations(context_docs, k) ==
    IF k > Len(context_docs) THEN ""
    ELSE "- " \o context_docs[k].metadata.chunk_id \o "\n"
         \o FallbackCitations(context_docs, k + 1)

generate_fallback_answer(question, context_docs) ==
    "## [search results]\nquestion: " \o question
    \o "\n\n## [related information]\n"
    \o FallbackBlocks(context_docs, 1)
    \o "\n## [sources]\n"
    \o FallbackCitations(context_docs, 1)
    \o "\n(i) **for a more detailed answer**: start LM Studio and load the"
    \o " gpt-oss-20b model."

\* What the POST to the chat-completion endpoint may do.
GenerationOutcomes ==
    {"200", "200_malformed", "500", "connection_error", "timeout"}
\* The text a well-formed 200 response carries in choices[0].message.content.
GeneratedText == "generated answer"

\* generate_answer: the generated text on a well-formed 200 response, and an
\* error message (never the fallback answer) in every other case.
generate_answer(question, context_docs, outcome) ==
    CASE outcome = "200" -> GeneratedText
      [] outcome = "200_malformed" -> FailMark \o " answer generation error: KeyError"
      [] outcome = "500" -> FailMark \o " LM Studio API error: 500\n"
      [] outcome = "connection_error" ->
             FailMark \o " cannot connect to LM Studio; check that it is running"
      [] outcome = "timeout" -> FailMark \o " LM Studio response timed out"

\* What the GET to /v1/models may do.
ProbeOutcomes == {"200", "503", "connection_error", "timeout"}

NoInformationAnswer == "sorry, no related information was found"

\* A variant of QueryAnswer that builds the fallback answer even from an
\* empty result list; C12 does not hold of it.
QueryAnswerAlwaysFallback(question, search_results, probe, generation) ==
    generate_fallback_answer(question, search_results)

\* The answer of query(question): the fixed answer when the search found
\* nothing, else generate_answer when the probe answered 200, and
\* generate_fallback_answer on any other status or an exception.
QueryAnswer(question, search_results, probe, generation) ==
    IF search_results = <<>> THEN NoInformationAnswer
    ELSE IF probe = "200"
    THEN generate_answer(question, search_results, generation)
    ELSE generate_fallback_answer(question, search_results)

\* A variant of QueryRequests that repeats a failed generation request once;
\* C18 does not hold of it.
QueryRequestsRetrying(search_results, probe, generation) ==
    IF search_results = <<>> THEN <<>>
    ELSE IF probe = "200"
    THEN <<[method |-> "GET", outcome |-> probe],
           [method |-> "POST", outcome |-> generation]>>
         \o (IF generation = "200" THEN <<>>
             ELSE <<[method |-> "POST", outcome |-> generation]>>)
    ELSE <<[method |-> "GET", outcome |-> probe]>>

\* The HTTP requests one query call issues, in order: none when the search
\* found nothing; the probe GET; the POST of generate_answer only after the
\* probe answered 200.
QueryRequests(search_results, probe, generation) ==
    IF search_results = <<>> THEN <<>>
    ELSE IF probe = "200"
    THEN <<[method |-> "GET", outcome |-> probe],
           [method |-> "POST", outcome |-> generation]>>
    ELSE <<[method |-> "GET", outcome |-> probe]>>

\* query(question): the search with n_results = 3, then the answer.
QueryCall(s) ==
    /\ pc[s] = "ready"
    /\ \E search_ok \in (IF SearchCanAnswer(s) THEN BOOLEAN ELSE {FALSE}) :
       \E search_results \in SearchReturns(s, QUERY_N_RESULTS, search_ok),
          question \in Questions, probe \in ProbeOutcomes :
       \E generation \in (IF search_results # <<>> /\ probe = "200"
                          THEN GenerationOutcomes ELSE {"200"}) :
        qry' =
          [qry EXCEPT
             ![s] = [answer |-> QueryAnswer(question, search_results, probe,
                                            generation),
                     search_results |-> search_results,
                     requests |-> QueryRequests(search_results, probe,
                                                generation),
                     n_results |-> QUERY_N_RESULTS,
                     search_ok |-> search_ok,
                     tests_done |-> 0]]
    /\ pc' = [pc EXCEPT ![s] = "query_ret"]
    /\ load' = [load EXCEPT ![s] = NoLoad]
    /\ pd' = [pd EXCEPT ![s] = NoPd]
    /\ obs' = [obs EXCEPT ![s] = [NoObs EXCEPT !.coll0 = collection]]
    /\ UNCHANGED <<fs, collection_exists, collection, has_model, has_db,
                   embedding_status, db_status, ingested, st>>

\* The caller has taken (answer, search_results).
QueryReturn(s) ==
    /\ pc[s] = "query_ret"
    /\ pc' = [pc EXCEPT ![s] = "ready"]
    /\ qry' = [qry EXCEPT ![s] = NoQry]
    /\ UNCHANGED <<fs, collection_exists, collection, has_model, has_db,
                   embedding_status, db_status, load, pd, obs, ingested, st>>

\* A caller invokes search_similar_documents(query, n_results) directly.
CallSearch(s, n_results) ==
    /\ pc[s] = "ready"
    /\ \E search_ok \in (IF SearchCanAnswer(s) THEN BOOLEAN ELSE {FALSE}) :
       \E search_results \in SearchReturns(s, n_results, search_ok) :
        qry' = [qry EXCEPT
                  ![s] = [NoQry EXCEPT !.search_results = search_results,
                                       !.n_results = n_results,
                                       !.search_ok = search_ok]]
    /\ pc' = [pc EXCEPT ![s] = "search_ret"]
    /\ load' = [load EXCEPT ![s] = NoLoad]
    /\ pd' = [pd EXCEPT ![s] = NoPd]
    /\ obs' = [obs EXCEPT ![s] = [NoObs EXCEPT !.coll0 = collection]]
    /\ UNCHANGED <<fs, collection_exists, collection, has_model, has_db,
                   embedding_status, db_status, ingested, st>>

\* The caller has taken the result list.
SearchReturn(s) ==
    /\ pc[s] = "search_ret"
    /\ pc' = [pc EXCEPT ![s] = "ready"]
    /\ qry' = [qry EXCEPT ![s] = NoQry]
    /\ UNCHANGED <<fs, collection_exists, collection, has_model, has_db,
                   embedding_status, db_status, load, pd, obs, ingested, st>>

(***************************************************************************)
(* The chunker alone, on every short text (specification SpecSplit)        *)
(***************************************************************************)

TypeChar(c) ==
    /\ st.pc = "input"
    /\ Len(st.text) < MaxTextLen
    /\ st' = [st EXCEPT !.text = @ \o c]
    /\ UNCHANGED <<fs, collection_exists, collection, pc, has_model, has_db,
                   embedding_status, db_status, load, pd, qry, obs, ingested>>

CallSplit(chunk_size, chunk_overlap) ==
    /\ st.pc = "input"
    /\ st' = [st EXCEPT !.pc = "done", !.chunk_size = chunk_size,
                        !.chunk_overlap = chunk_overlap,
                        !.chunks = split_text(st.text, chunk_size, chunk_overlap)]
    /\ UNCHANGED <<fs, collection_exists, collection, pc, has_model, has_db,
                   embedding_status, db_status, load, pd, qry, obs, ingested>>

InitSplit ==
    /\ fs = [exists |-> FALSE, listing |-> <<>>]
    /\ collection_exists = FALSE
    /\ collection = {}
    /\ ingested = {}
    /\ InitSessions
    /\ st = [NoSt EXCEPT !.pc = "input"]

NextSplit ==
    \/ \E c \in SplitAlphabet : TypeChar(c)
    \/ \E chunk_size \in 1..MaxChunkSize, chunk_overlap \in 0..MaxOverlap :
          CallSplit(chunk_size, chunk_overlap)

SpecSplit == InitSplit /\ [][NextSplit]_vars

(***************************************************************************)
(* Specifications                                                          *)
(***************************************************************************)

\* The files a caller may hand to process_document.
KnownPaths == {PathJoin(DOCUMENT_PATH, fs.listing[k]) : k \in DOMAIN fs.listing}

Ingest(s) ==
    \/ LoadResetAndGlob(s)
    \/ ProcessDocumentOpen(s)
    \/ ChunkDuplicateCheck(s)
    \/ ChunkEmbedAndAdd(s)
    \/ LoadNext(s)

Next ==
    \/ Construct(MainSession)
    \/ Restart(MainSession)
    \/ \E fn \in LoadFunctions : CallLoad(MainSession, fn)
    \/ \E file_path \in KnownPaths : CallProcessDocument(MainSession, file_path)
    \/ Ingest(MainSession)
    \/ QueryCall(MainSession)
    \/ QueryReturn(MainSession)
    \/ \E n_results \in 1..MaxResults : CallSearch(MainSession, n_results)
    \/ SearchReturn(MainSession)

\* One RAGSystem whose calls run one after the other to completion.
Spec == Init /\ [][Next]_vars

\* Two UI sessions start at the same time on the same ./chroma_db; their
\* constructors' ingestion runs interleave at the store operations.
NextConcurrent == \E s \in Sessions : Construct(s) \/ Ingest(s)

InitConcurrent == Init /\ fs.listing = <<"doc1.txt">>

SpecConcurrent == InitConcurrent /\ [][NextConcurrent]_vars

(***************************************************************************)
(* The debug script debug_rag.py: main and its own load_documents          *)
(***************************************************************************)

\* debug_rag.main up to the document loop of load_documents: main returns
\* when a setup step fails, loads only when the collection is empty, and
\* load_documents returns False for a missing directory or an empty glob
\* result.  The glob results are concatenated and not sorted.
DebugMain(s) ==
    /\ pc[s] = "idle"
    /\ \E model_ok \in BOOLEAN, db_ok \in BOOLEAN :
        LET current_count == StoreCount(collection)
            documents == GlobAll(fs, DOCUMENT_PATH, 1)
            enter == /\ model_ok /\ db_ok /\ current_count = 0
                     /\ fs.exists /\ documents # <<>>
            called == model_ok /\ db_ok /\ current_count = 0
        IN  /\ has_model' = [has_model EXCEPT ![s] = model_ok]
            /\ has_db' = [has_db EXCEPT ![s] = model_ok /\ db_ok]
            /\ collection_exists' = (collection_exists \/ (model_ok /\ db_ok))
            /\ pc' = [pc EXCEPT
                        ![s] = IF enter THEN "dbg_doc"
                               ELSE IF model_ok /\ db_ok /\ ~called
                               THEN "dbg_tests"
                               ELSE "dbg_done"]
            /\ load' =
                 [load EXCEPT
                    ![s] = IF enter
                           THEN [NoLoad EXCEPT !.fn = "debug_load_documents",
                                               !.document_path = DOCUMENT_PATH,
                                               !.documents = documents,
                                               !.next = 1]
                           ELSE IF called
                           THEN [NoLoad EXCEPT !.fn = "debug_load_documents",
                                               !.document_path = DOCUMENT_PATH,
                                               !.ret = FALSE]
                           ELSE NoLoad]
            /\ obs' = [obs EXCEPT ![s] = [NoObs EXCEPT !.coll0 = collection]]
    /\ pd' = [pd EXCEPT ![s] = NoPd]
    /\ qry' = [qry EXCEPT ![s] = NoQry]
    /\ UNCHANGED <<fs, collection, embedding_status, db_status, ingested, st>>

\* The end of one pass of the file loop of the debug load_documents: the
\* counters move only when the file went through (done); then the next
\* file, or "return processed_count > 0", after which main goes on to its
\* search tests or, "if not success", returns.
DebugNextFile(s, done, coll) ==
    LET frame == IF done
                 THEN [load[s] EXCEPT !.processed_count = @ + 1,
                                      !.total_chunks = @ + Len(pd[s].chunks)]
                 ELSE load[s]
        more == HasNextDocument(frame)
    IN  /\ load' = [load EXCEPT
                      ![s] = IF more THEN [frame EXCEPT !.next = @ + 1]
                             ELSE [frame EXCEPT
                                     !.ret = frame.processed_count > 0]]
        /\ pc' = [pc EXCEPT
                    ![s] = IF more THEN "dbg_doc"
                           ELSE IF frame.processed_count > 0 THEN "dbg_tests"
                           ELSE "dbg_done"]
        /\ pd' = [pd EXCEPT ![s] = NoPd]
        /\ collection' = coll
        /\ UNCHANGED <<fs, collection_exists, has_model, has_db,
                       embedding_status, db_status, qry, obs, ingested, st>>

\* The loop body of the debug load_documents up to the chunk loop: open +
\* read (read_ok), the blank-content "continue", split_text.
DebugOpen(s) ==
    /\ pc[s] = "dbg_doc"
    /\ LET file_path == load[s].documents[load[s].next]
           filename == Basename(file_path)
           chunks == FileChunks[filename]
       IN  \E read_ok \in BOOLEAN :
             IF ~read_ok \/ Strip(FileContent[filename]) = ""
             THEN DebugNextFile(s, FALSE, collection)
             ELSE /\ pd' = [pd EXCEPT
                              ![s] = [NoPd EXCEPT !.file_path = file_path,
                                                  !.filename = filename,
                                                  !.chunks = chunks]]
                  /\ pc' = [pc EXCEPT ![s] = "dbg_chunk"]
                  /\ UNCHANGED <<fs, collection_exists, collection, has_model,
                                 has_db, embedding_status, db_status, load,
                                 qry, obs, ingested, st>>

\* One pass of the chunk loop of the debug load_documents: encode (enc_ok)
\* and collection.add, with no duplicate check and no blank-chunk test; an
\* exception leaves the file for the except branch of the file loop.
DebugChunk(s) ==
    /\ pc[s] = "dbg_chunk"
    /\ LET chunk == pd[s].chunks[pd[s].i + 1]
           chunk_id == ChunkId(pd[s].filename, pd[s].i)
           metadata == Metadata(pd[s].filename, chunk_id, pd[s].i, pd[s].file_path)
           present == StoreGet(collection, chunk_id) # {}
           last == pd[s].i + 1 = Len(pd[s].chunks)
           Added(coll) ==
               IF last THEN DebugNextFile(s, TRUE, coll)
               ELSE /\ pd' = [pd EXCEPT ![s].i = @ + 1,
                                       ![s].chunks_added = @ + 1]
                    /\ collection' = coll
                    /\ UNCHANGED <<fs, collection_exists, pc, has_model,
                                   has_db, embedding_status, db_status, load,
                                   qry, obs, ingested, st>>
       IN  \E enc_ok \in BOOLEAN :
             IF ~enc_ok THEN DebugNextFile(s, FALSE, collection)
             ELSE IF present
             THEN \E outcome \in AddExistingOutcomes :
                    IF outcome = "ignored" THEN Added(collection)
                    ELSE DebugNextFile(s, FALSE, collection)
             ELSE \E add_ok \in BOOLEAN :
                    IF add_ok
                    THEN Added(StoreAdd(collection,
                                        Entry(chunk, metadata, chunk_id)))
                    ELSE DebugNextFile(s, FALSE, collection)

\* The queries main hands to test_search, in order.
test_queries == <<"q1", "q2", "q3", "q4">>

\* One test_search call of main's loop: encode and collection.query with
\* n_results = 3, not clamped by the script; the store answers with as many
\* results as it holds, or the call raises (search_ok FALSE) and the except
\* branch prints the error.  What the call prints is kept in qry.
DebugSearch(s) ==
    /\ pc[s] = "dbg_tests"
    /\ \E search_ok \in BOOLEAN :
       \E printed \in (IF ~search_ok THEN {<<>>}
                       ELSE UNION {{SearchResults(sq, dist) :
                                      sq \in StoreQuery(collection, dist,
                                                        Min(QUERY_N_RESULTS,
                                                            StoreCount(collection)))} :
                                   dist \in [collection -> 0..MaxDistance]}) :
        qry' = [qry EXCEPT
                  ![s] = [NoQry EXCEPT !.search_results = printed,
                                       !.n_results = QUERY_N_RESULTS,
                                       !.search_ok = search_ok,
                                       !.tests_done = qry[s].tests_done + 1]]
    /\ pc' = [pc EXCEPT
                ![s] = IF qry[s].tests_done + 1 < Len(test_queries)
                       THEN "dbg_tests" ELSE "dbg_done"]
    /\ UNCHANGED <<fs, collection_exists, collection, has_model, has_db,
                   embedding_status, db_status, load, pd, obs, ingested, st>>

\* The script ends; ./chroma_db stays on disk.
DebugExit(s) ==
    /\ pc[s] = "dbg_done"
    /\ pc' = [pc EXCEPT ![s] = "idle"]
    /\ has_model' = [has_model EXCEPT ![s] = FALSE]
    /\ has_db' = [has_db EXCEPT ![s] = FALSE]
    /\ load' = [load EXCEPT ![s] = NoLoad]
    /\ pd' = [pd EXCEPT ![s] = NoPd]
    /\ qry' = [qry EXCEPT ![s] = NoQry]
    /\ obs' = [obs EXCEPT ![s] = NoObs]
    /\ UNCHANGED <<fs, collection_exists, collection, embedding_status,
                   db_status, ingested, st>>

NextDebug ==
    \/ DebugMain(MainSession)
    \/ DebugOpen(MainSession)
    \/ DebugChunk(MainSession)
    \/ DebugSearch(MainSession)
    \/ DebugExit(MainSession)

\* Runs of the debug script, one after the other, on the same ./chroma_db.
SpecDebug == Init /\ [][NextDebug]_vars

(***************************************************************************)
(* Properties                                                              *)
(***************************************************************************)

\* The positions of a session inside a load call or process_document.
IngestionPositions == {"load_reset", "doc", "chunk", "add", "doc_ret"}

\* The outcomes of an HTTP request that count as a failure of the service.
FailedOutcomes == {"200_malformed", "500", "503", "connection_error", "timeout"}

\* C1: when process_document runs on a file that an earlier call ingested to
\* the end, with no reset in between, it inserts nothing: throughout the
\* second call the collection equals what it was when the call began, and,
\* every duplicate lookup having answered, the call returns 0.
C1_SecondPassInsertsNothing ==
    \A s \in Sessions :
        (pc[s] \in {"chunk", "add", "doc_ret"} /\ obs[s].pd_prior)
        => /\ collection = obs[s].pd_coll0
           /\ obs[s].pd_inserted = 0
           /\ (pc[s] = "doc_ret" /\ ~obs[s].pd_get_failed) => pd[s].ret = 0

\* C1 witness: a direct second process_document call on the two-chunk file
\* has returned 0 after looking both chunk ids up.
C1_Witness ==
    /\ pc[MainSession] = "doc_ret"
    /\ load[MainSession].fn = "process_document"
    /\ obs[MainSession].pd_prior
    /\ ~obs[MainSession].pd_get_failed
    /\ obs[MainSession].pd_failed = "no"
    /\ Len(pd[MainSession].chunks) = 2
    /\ pd[MainSession].ret = 0
    /\ Cardinality(collection) >= 2

\* C2: when the search found something and a request to the generation
\* service failed (at the probe or at the generation request), the answer
\* query returns is non-empty and contains the source of every result.
C2_FailureGivesFallback ==
    \A s \in Sessions :
        (/\ pc[s] = "query_ret"
         /\ qry[s].search_results # <<>>
         /\ \E k \in DOMAIN qry[s].requests :
                qry[s].requests[k].outcome \in FailedOutcomes)
        => /\ qry[s].answer # ""
           /\ \A k \in DOMAIN qry[s].search_results :
                  Contains(qry[s].answer, qry[s].search_results[k].source)

\* C3: every chunk split_text returns has at most chunk_size characters,
\* unless some trimmed sentence of the text is longer than chunk_size.
C3_ChunkWithinSize ==
    st.pc = "done"
    => \/ \E sentence \in SentenceCandidates(st.text) :
              Len(sentence) > st.chunk_size
       \/ \A k \in DOMAIN st.chunks : Len(st.chunks[k]) <= st.chunk_size

C5_AppendOnlyOutsideReset ==
    \A s \in Sessions :
        /\ pc[s] \in {"chunk", "add", "doc_ret"}
           => obs[s].pd_coll0 \subseteq collection
        /\ (pc[s] \in IngestionPositions /\ ~obs[s].did_reset)
           => obs[s].coll0 \subseteq collection

\* C5 witness: a direct process_document call on a non-empty collection has
\* inserted a chunk and everything it started from is still there.
C5_Witness ==
    /\ pc[MainSession] = "doc_ret"
    /\ load[MainSession].fn = "process_document"
    /\ obs[MainSession].coll0 # {}
    /\ obs[MainSession].pd_inserted > 0
    /\ obs[MainSession].coll0 \subseteq collection
    /\ Cardinality(collection) > Cardinality(obs[MainSession].coll0)

\* C5 (as stated): in and after every ingestion call, load calls included,
\* the collection holds every entry it held when the call began.
C5_AppendOnlyEveryCall ==
    \A s \in Sessions :
        load[s].fn \in LoadFunctions \cup {"process_document"}
        => /\ obs[s].coll0 \subseteq collection
           /\ Cardinality(collection) >= Cardinality(obs[s].coll0)

\* C6: with two ingestion runs of the same document interleaved on one
\* collection, every duplicate lookup having answered, no chunk_id is added
\* and counted in chunks_added by both runs (between two resets).
C6_AtMostOneRunInserts ==
    \A s \in Sessions : \A t \in Sessions \ {s} :
        (/\ pc[s] \in {"chunk", "add", "doc_ret"}
         /\ pc[t] \in {"chunk", "add", "doc_ret"}
         /\ pd[s].file_path = pd[t].file_path
         /\ ~obs[s].pd_get_failed /\ ~obs[t].pd_get_failed)
        => obs[s].counted \cap obs[t].counted = {}

\* C7: a construction in which the embedding model or the store failed to
\* set up never reaches ingestion: no reset, no document, no chunk.
C7_FailedSetupStopsConstruction ==
    \A s \in Sessions :
        (obs[s].in_init /\ (~has_model[s] \/ ~has_db[s]))
        => pc[s] \notin IngestionPositions

\* C8: the value process_document returns is the number of chunks the call
\* inserted into the collection.
C8_ReturnCountsInsertions ==
    \A s \in Sessions :
        pc[s] = "doc_ret" => pd[s].ret = obs[s].pd_inserted

C10_NonEmptyStartSkipsIngestion ==
    [][\A s \in Sessions :
          (Construct(s) /\ StoreCount(collection) > 0)
          => /\ pc'[s] = "ready"
             /\ collection' = collection
             /\ ingested' = ingested
             /\ load'[s] = NoLoad
             /\ pd'[s] = NoPd
             /\ ~obs'[s].in_init]_vars

\* C10 witness: a RAGSystem was constructed on a collection that held
\* chunks, reports them as available, and nothing else has happened yet.
C10_Witness ==
    /\ pc[MainSession] = "ready"
    /\ collection # {}
    /\ has_db[MainSession]
    /\ db_status[MainSession] = AvailableStatus(StoreCount(collection))
    /\ load[MainSession] = NoLoad
    /\ obs[MainSession] = [NoObs EXCEPT !.coll0 = collection]

\* C11: a search in which encode and the store's query returned gives
\* exactly min(n_results, collection size) results, all of them distinct
\* stored chunks, with distance non-decreasing from first to last.
C11_SearchLengthAndOrder ==
    \A s \in Sessions :
        (pc[s] \in {"search_ret", "query_ret"} /\ qry[s].search_ok)
        => LET r == qry[s].search_results
           IN  /\ Len(r) = Min(qry[s].n_results, StoreCount(collection))
               /\ \A i \in 1..(Len(r) - 1) : r[i].distance <= r[i + 1].distance
               /\ \A i \in 1..Len(r) :
                      /\ \E e \in collection :
                             /\ e.id = r[i].metadata.chunk_id
                             /\ e.document = r[i].content
                             /\ e.metadata = r[i].metadata
                      /\ r[i].source = r[i].metadata.source
                      /\ \A j \in 1..Len(r) :
                             r[i].metadata.chunk_id = r[j].metadata.chunk_id
                             => i = j

\* C11 witness: a direct search for 2 results on a collection of 3 chunks
\* has returned results of different distances.
C11_Witness ==
    /\ pc[MainSession] = "search_ret"
    /\ qry[MainSession].search_ok
    /\ qry[MainSession].n_results = 2
    /\ StoreCount(collection) = 3
    /\ Len(qry[MainSession].search_results) = 2
    /\ qry[MainSession].search_results[1].distance
          < qry[MainSession].search_results[2].distance

\* C12: on an empty collection a search returns the empty list, and query
\* returns the fixed no-information answer with the empty list and issues no
\* request.
C12_EmptyCollectionSearch ==
    \A s \in Sessions :
        (pc[s] \in {"search_ret", "query_ret"} /\ collection = {})
        => /\ qry[s].search_results = <<>>
           /\ pc[s] = "query_ret"
              => /\ qry[s].answer = NoInformationAnswer
                 /\ qry[s].requests = <<>>

\* C12 witness: query has returned on an empty collection, with a model and
\* a collection object in place.
C12_Witness ==
    /\ pc[MainSession] = "query_ret"
    /\ collection = {}
    /\ has_db[MainSession] /\ has_model[MainSession]
    /\ qry[MainSession].answer = NoInformationAnswer
    /\ qry[MainSession].search_results = <<>>

\* C18: one query call issues at most one GET and at most one POST, the POST
\* only after the GET answered 200, nothing after a failed request, and no
\* request at all when the search found nothing.
C18_RequestsOncePerQuery ==
    \A s \in Sessions :
        pc[s] = "query_ret"
        => LET r == qry[s].requests
           IN  /\ Len(r) <= 2
               /\ qry[s].search_results = <<>> => r = <<>>
               /\ Len(r) >= 1 => r[1].method = "GET"
               /\ Len(r) = 2 => r[2].method = "POST" /\ r[1].outcome = "200"
               /\ \A k \in 1..(Len(r) - 1) : r[k].outcome \notin FailedOutcomes

\* C18 witness: a query whose probe answered 200 and whose generation
\* request timed out has returned after those two requests.
C18_Witness ==
    /\ pc[MainSession] = "query_ret"
    /\ qry[MainSession].requests =
         <<[method |-> "GET", outcome |-> "200"],
           [method |-> "POST", outcome |-> "timeout"]>>

\* The sentence delimiters of the specification: the ones the code splits at
\* and the Latin ones.
SpecDelims == Delims \cup {".", "!", "?"}

\* C13: for consecutive chunks i and i+1 that split_text returns, if chunk i
\* has at least chunk_overlap characters then its last chunk_overlap
\* characters are a prefix of chunk i+1.
C13_OverlapIsPrefix ==
    st.pc = "done"
    => \A k \in 1..(Len(st.chunks) - 1) :
           LET c == st.chunks[k]
           IN  Len(c) >= st.chunk_overlap
               => StartsWith(st.chunks[k + 1],
                             SubSeq(c, Len(c) - st.chunk_overlap + 1, Len(c)))

\* C13 witness: split_text returned two chunks, the first longer than a
\* positive chunk_overlap, so that a proper suffix of it was carried over.
C13_Witness ==
    /\ st.pc = "done"
    /\ Len(st.chunks) >= 2
    /\ st.chunk_overlap >= 1
    /\ Len(st.chunks[1]) > st.chunk_overlap
    /\ Len(st.chunks[2]) > st.chunk_overlap

\* C14: the text carried from a closed chunk into the next buffer has
\* min(chunk_overlap, length of the closed chunk) characters: the trailing
\* chunk_overlap characters, or the whole chunk when it is shorter.
C14_SeedLength ==
    st.pc = "done"
    => \A k \in 1..(Len(st.chunks) - 1) :
           LET c == st.chunks[k]
               seed == OverlapText(c, st.chunk_overlap)
           IN  /\ Len(seed) = Min(st.chunk_overlap, Len(c))
               /\ EndsWith(c, seed)
               /\ StartsWith(st.chunks[k + 1], seed)

\* C15: every sentence appended to a chunk buffer is followed by the
\* terminator, the sentence that starts a new chunk after the carried text
\* included; so every returned chunk ends with the terminator.
C15_ChunksEndTerminated ==
    st.pc = "done"
    => \A k \in 1..Len(st.chunks) :
           EndsWith(st.chunks[k], IdeographicFullStop)

\* C16: no trimmed sentence candidate of split_text has a sentence
\* delimiter, Japanese or Latin, or a newline in its interior.
C16_NoDelimiterInsideSentence ==
    st.pc = "done"
    => \A sentence \in SentenceCandidates(st.text) :
           \A i \in 2..(Len(sentence) - 1) :
               CharAt(sentence, i) \notin SpecDelims

\* C19: in a load pass no file is handed to process_document twice: the
\* document list of the pass has no path twice, so the file count the pass
\* reports is the number of distinct matching files.
C19_EachFileOnce ==
    \A s \in Sessions :
        load[s].fn \in LoadFunctions
        => \A i \in DOMAIN load[s].documents :
               \A j \in DOMAIN load[s].documents :
                   load[s].documents[i] = load[s].documents[j] => i = j

\* C20 (as the code has it): a load call that returns False for a missing
\* directory leaves the collection as it was; one that returns False for a
\* directory without a matching file has by then cleared the collection,
\* unless the delete + recreate itself failed.
C20_NothingToIngest ==
    \A s \in Sessions :
        (/\ pc[s] = "ready"
         /\ load[s].fn \in LoadFunctions
         /\ load[s].ret = FALSE
         /\ load[s].documents = <<>>)
        => IF ~fs.exists \/ ~obs[s].did_reset
           THEN collection = obs[s].coll0
           ELSE collection = {}

\* C20 witness: a load call on a directory without a matching file has
\* returned False and the chunks the collection held before are gone.
C20_Witness ==
    /\ pc[MainSession] = "ready"
    /\ load[MainSession].fn \in LoadFunctions
    /\ load[MainSession].ret = FALSE
    /\ load[MainSession].documents = <<>>
    /\ fs.exists
    /\ obs[MainSession].did_reset
    /\ obs[MainSession].coll0 # {}
    /\ collection = {}

\* C20 (as stated): a load call that returns False with nothing to ingest
\* leaves the collection as it was.
C20_NothingToIngestKeepsAll ==
    \A s \in Sessions :
        (/\ pc[s] = "ready"
         /\ load[s].fn \in LoadFunctions
         /\ load[s].ret = FALSE
         /\ load[s].documents = <<>>)
        => collection = obs[s].coll0

\* C17: every ingestion entry point, the debug script's load_documents
\* included, goes through the discovered paths in ascending sorted order.
C17_SortedProcessingOrder ==
    \A s \in Sessions :
        load[s].fn \in LoadFunctions \cup {"debug_load_documents"}
        => \A i \in 1..(Len(load[s].documents) - 1) :
               ~StrLess(load[s].documents[i + 1], load[s].documents[i])

====
